---- MODULE Spec2Model ----
(***************************************************************************)
(* The OAuth2 credential lifecycle of PersonalizationMCP: the token files  *)
(* of the YouTube, Spotify and Reddit token managers, the resolvers of the *)
(* three *_mcp modules that pick the token of an API call, and the token   *)
(* endpoint they refresh against.  The three providers share no state, so  *)
(* a behaviour follows one provider, chosen in Init.                       *)
(***************************************************************************)
EXTENDS Integers, Sequences, FiniteSets, TLC

VARIABLES provider, now, ticks, store, envTok, envCreds, issued, calls, boots, th, h,
          flow, poll, io

vars == <<provider, now, ticks, store, envTok, envCreds, issued, calls, boots, th, h,
          flow, poll, io>>

(***************************************************************************)
(* Bounds of the model.                                                    *)
(***************************************************************************)
\* tool calls (resolver calls, manual refreshes) in a run
MaxCalls == 2
\* bootstraps (complete_*_oauth, the command-line helper) in a run
MaxBoots == 1
\* clock advances in a run
MaxTicks == 2
\* the clock (unix seconds) when the run starts
StartTime == 10000
\* clear_tokens calls in a run
MaxClears == 1
\* failing I/O operations on the token file in a run
MaxFaults == 1

Providers == {"youtube", "spotify", "reddit"}
Callers == {"c1", "c2"}
\* how far one clock advance moves time.time()
TickSteps == {3299}
\* expires_in values the token endpoint declares in a code exchange
ExpiresChoices == {3599, 7200}
\* and in a refresh
RefreshExpires == {3599}
\* the callers of a sequential run (one server process serving one client)
SeqCallers == {"c1"}
\* polling intervals a device-code response declares
DeclaredIntervals == {5, 10}
\* seconds the user takes between the device code and the start of polling
PollDelays == {0, 1800}
\* the polls (by attempts made so far) the endpoint may answer with slow_down
SlowDownAt == {0, 30}

(***************************************************************************)
(* Python values.  A JSON object is a record whose absent keys hold Absent *)
(* (strings) or NoInt (numbers); PyNone is None / JSON null.               *)
(***************************************************************************)
Absent == "<absent>"
PyNone == "<None>"
NoInt == -1
AuthError == "<auth-required>"
\* an exception that leaves the resolver
Raised == "<raised>"

\* bool(s) of an optional string
Truthy(s) == s \notin {Absent, PyNone, ""}

\* dict.get(key): None for an absent key
DictGet(v) == IF v = Absent THEN PyNone ELSE v

\* dict.get(key, 0) of a numeric key
GetInt(v) == IF v = NoInt THEN 0 ELSE v

RECURSIVE LStrip(_)
LStrip(s) == IF Len(s) > 0 /\ Head(s) = " " THEN LStrip(SubSeq(s, 2, Len(s))) ELSE s

RECURSIVE RStrip(_)
RStrip(s) ==
  IF Len(s) > 0 /\ SubSeq(s, Len(s), Len(s)) = " "
    THEN RStrip(SubSeq(s, 1, Len(s) - 1))
    ELSE s

\* str.strip()
Strip(s) == RStrip(LStrip(s))

\* The n-th access token and refresh token the token endpoint issues.
AccessTok(n) == "at" \o ToString(n)
RefreshTok(n) == "rt" \o ToString(n)

(***************************************************************************)
(* The token file.                                                         *)
(***************************************************************************)
NoRec ==
  [present |-> FALSE, creds |-> FALSE, access_token |-> Absent,
   refresh_token |-> Absent, expires_in |-> NoInt, refreshed_at |-> NoInt,
   expires_at |-> NoInt]

\* json.load of the token file: None when the file does not exist, and when
\* its bytes do not parse (the load functions catch the JSONDecodeError)
LoadTokens == IF io.disk = "whole" THEN store ELSE NoRec

\* `if not tokens`
NoTokens(tokens) == ~tokens.present

\* `key in tokens`
HasKey(v) == v # Absent

(***************************************************************************)
(* Program constants.                                                      *)
(***************************************************************************)
\* poll_for_token: max_attempts
MaxAttempts == 60
\* poll_for_token: interval = 5, and complete_youtube_oauth: interval=5
DefaultInterval == 5
\* device_info.get('expires_in', 1800): the window of a device code
DeviceExpiresIn == 1800
\* the 5-minute buffer before expiry
RefreshBuffer == 300
\* YouTube refreshes a token older than 55 minutes
MaxTokenAge == 3300
\* complete_youtube_oauth: tokens.get('expires_in', 3600)
DefaultExpiresIn == 3600

(***************************************************************************)
(* Freshness checks of the three token managers.                           *)
(***************************************************************************)
\* A faulty needs_refresh: the age of the token is compared with the
\* 5-minute buffer, not with the 55 minutes.
NeedsRefreshAgeBuffer(tokens, t) ==
  LET expires_in == GetInt(tokens.expires_in)
      refreshed_at == GetInt(tokens.refreshed_at)
      time_since_refresh == t - refreshed_at
  IN  \/ expires_in <= RefreshBuffer
      \/ time_since_refresh >= expires_in
      \/ time_since_refresh >= RefreshBuffer
      \/ refreshed_at = 0

\* YouTubeTokenManager.get_valid_access_token: needs_refresh
NeedsRefresh(tokens, t) ==
  LET expires_in == GetInt(tokens.expires_in)
      refreshed_at == GetInt(tokens.refreshed_at)
      time_since_refresh == t - refreshed_at
  IN  \/ expires_in <= RefreshBuffer
      \/ time_since_refresh >= expires_in
      \/ time_since_refresh >= MaxTokenAge
      \/ refreshed_at = 0

\* A faulty is_token_expired: a record without expires_at counts as valid.
IsTokenExpiredLenient(tokens, t) ==
  IF tokens.expires_at = NoInt
    THEN FALSE
    ELSE t >= tokens.expires_at - RefreshBuffer

\* SpotifyTokenManager.is_token_expired
IsTokenExpired(tokens, t) ==
  IF tokens.expires_at = NoInt
    THEN TRUE
    ELSE t >= tokens.expires_at - RefreshBuffer

\* RedditTokenManager.get_valid_access_token: time.time() < (expires_at - 300)
RedditStillValid(tokens, t) == t < GetInt(tokens.expires_at) - RefreshBuffer

\* YouTubeTokenManager.get_token_status: "needs_refresh"
StatusNeedsRefresh(tokens, t) ==
  LET expires_in == GetInt(tokens.expires_in)
      refreshed_at == GetInt(tokens.refreshed_at)
      time_since_refresh == t - refreshed_at
      diff == expires_in - time_since_refresh
      remaining_time == IF diff > 0 THEN diff ELSE 0
  IN  remaining_time <= RefreshBuffer

\* What get_valid_access_token does with the record it loaded: "none" (return
\* None), "fresh" (return the stored access_token) or "refresh".
GetValidDecision(p, tokens, t) ==
  CASE p = "youtube" ->
         IF NoTokens(tokens) THEN "none"
         ELSE IF ~HasKey(tokens.access_token) THEN "none"
         ELSE IF NeedsRefresh(tokens, t) THEN "refresh"
         ELSE "fresh"
    [] p = "spotify" ->
         IF NoTokens(tokens) THEN "none"
         ELSE IF IsTokenExpired(tokens, t) THEN "refresh"
         ELSE "fresh"
    [] p = "reddit" ->
         IF NoTokens(tokens) THEN "none"
         ELSE IF RedditStillValid(tokens, t) THEN "fresh"
         ELSE IF HasKey(tokens.refresh_token) THEN "refresh"
         ELSE "none"

(***************************************************************************)
(* The resolvers of the *_mcp modules.                                     *)
(***************************************************************************)
\* Step 1 of _get_valid_oauth_token (YouTube, Spotify), and the
\* `if not access_token` of _make_reddit_api_request: is the caller's token used?
UsesOverride(p, access_token) ==
  IF p = "reddit"
    THEN Truthy(access_token)
    ELSE Truthy(access_token) /\ Truthy(Strip(access_token)) /\ access_token # "null"

\* A faulty resolver: the environment's token goes before the managed one.
ResolveTokenEnvFirst(p, managed_token, env_token) ==
  IF p # "reddit" /\ Truthy(env_token) /\ Truthy(Strip(env_token)) THEN env_token
  ELSE IF Truthy(managed_token) THEN managed_token
  ELSE PyNone

\* Steps 2 and 3 of _get_valid_oauth_token: the managed token, else the
\* environment's token, else None.  Reddit reads no token from the environment.
ResolveToken(p, managed_token, env_token) ==
  IF Truthy(managed_token) THEN managed_token
  ELSE IF p # "reddit" /\ Truthy(env_token) /\ Truthy(Strip(env_token)) THEN env_token
  ELSE PyNone

\* The keys of the error object the resolver's caller gets when there is no
\* token: error_info of _ensure_valid_oauth_token (YouTube, Spotify), the
\* dict of _make_reddit_api_request.
ErrorObject(p) ==
  CASE p = "youtube" -> {"error", "note", "required_scopes", "setup_instructions"}
    [] p = "spotify" -> {"status", "message"}
    [] p = "reddit" -> {"status", "message"}

\* The tools a caller can invoke: the resolver of an API wrapper ("ensure":
\* _ensure_valid_oauth_token, "get": _get_valid_oauth_token alone, "api":
\* _make_reddit_api_request), the manual refresh tool ("force") and Reddit's
\* auto_refresh_reddit_token_if_needed ("auto": get_valid_access_token called
\* outside an event loop).
Entries(p) ==
  CASE p = "youtube" -> {"ensure", "get", "force"}
    [] p = "spotify" -> {"ensure", "force"}
    [] p = "reddit" -> {"api", "auto", "force"}

\* access_token arguments a caller passes
Overrides == {PyNone, "", " ", "null", "ovr"}

(***************************************************************************)
(* The token endpoint.  A response is the decoded JSON body ("ok": with an *)
(* access_token; "errbody": an error object without one) or an exception   *)
(* of the HTTP client ("perm": 4xx invalid_grant and the like;             *)
(* "transient": transport failure or 5xx).                                 *)
(***************************************************************************)
NoResp ==
  [kind |-> "none", access_token |-> Absent, refresh_token |-> Absent,
   expires_in |-> NoInt]

ErrResp(kind) == [NoResp EXCEPT !.kind = kind]

\* The bodies that carry the n-th access token, with a refresh_token of RT
\* and an expires_in of E.
OkResps(n, RT, E) ==
  { [kind |-> "ok", access_token |-> AccessTok(n), refresh_token |-> rt,
     expires_in |-> e] : rt \in RT, e \in E }

\* Answers to a refresh_token grant: the endpoint honours only a real refresh
\* token, rotates it or not, and may fail in each way.
RefreshResps(refresh_token, n) ==
  (IF Truthy(refresh_token)
     THEN OkResps(n, {Absent, RefreshTok(n)}, RefreshExpires)
     ELSE {})
    \cup {ErrResp("perm"), ErrResp("transient"), ErrResp("errbody")}

\* Answers to the authorization-code or device-code exchange of a bootstrap.
\* A grant carries a refresh_token (Reddit is asked for duration=permanent).
ExchangeResps(n) ==
  OkResps(n, {RefreshTok(n)}, ExpiresChoices \cup {NoInt})
    \cup {ErrResp("perm"), ErrResp("errbody")}

Raises(resp) == resp.kind \in {"perm", "transient"}

(***************************************************************************)
(* Writing the token file.                                                 *)
(***************************************************************************)
\* The response body as a dict (the keys it carries, nothing else).
BodyRec(resp) ==
  [NoRec EXCEPT !.present = TRUE, !.access_token = resp.access_token,
                !.refresh_token = resp.refresh_token,
                !.expires_in = resp.expires_in]

\* SpotifyTokenManager.save_tokens
SpotifySave(tokens, t) ==
  IF tokens.expires_in # NoInt
    THEN [tokens EXCEPT !.expires_at = t + tokens.expires_in]
    ELSE tokens

\* RedditTokenManager.save_tokens
RedditSave(tokens, t) ==
  [(IF tokens.expires_in # NoInt
      THEN [tokens EXCEPT !.expires_at = t + tokens.expires_in]
      ELSE tokens) EXCEPT !.refreshed_at = t]

\* dict.update(result): the keys of the response overwrite, the others stay
DictUpdate(tokens, resp) ==
  [tokens EXCEPT
     !.access_token = IF HasKey(resp.access_token) THEN resp.access_token ELSE @,
     !.refresh_token = IF HasKey(resp.refresh_token) THEN resp.refresh_token ELSE @,
     !.expires_in = IF resp.expires_in # NoInt THEN resp.expires_in ELSE @]

\* A faulty refresh: the record keeps the timestamp of the old token.
YouTubeRefreshedNoStamp(tokens, resp, t) == DictUpdate(tokens, resp)

\* YouTubeTokenManager._refresh_access_token: tokens.update(result);
\* tokens['refreshed_at'] = int(time.time())
YouTubeRefreshed(tokens, resp, t) ==
  [DictUpdate(tokens, resp) EXCEPT !.refreshed_at = t]

\* SpotifyTokenManager.refresh_access_token: the response, with the loaded
\* refresh_token carried over when the response has none
SpotifyRefreshed(tokens, resp) ==
  LET new_tokens == BodyRec(resp)
  IN  IF ~HasKey(new_tokens.refresh_token) /\ HasKey(tokens.refresh_token)
        THEN [new_tokens EXCEPT !.refresh_token = tokens.refresh_token]
        ELSE new_tokens

\* RedditTokenManager._refresh_token: save_tokens(new_tokens)
RedditRefreshed(tokens, resp) == BodyRec(resp)

\* The record a refresh writes, or NoRec when it writes nothing.
RefreshWrite(p, tokens, resp, t) ==
  CASE Raises(resp) -> NoRec
    [] p = "youtube" ->
         IF HasKey(resp.access_token) THEN YouTubeRefreshed(tokens, resp, t) ELSE NoRec
    [] p = "spotify" -> SpotifySave(SpotifyRefreshed(tokens, resp), t)
    [] p = "reddit" ->
         IF HasKey(resp.access_token)
           THEN RedditSave(RedditRefreshed(tokens, resp), t)
           ELSE NoRec

\* What the refresh routine returns: the new access token, or None.
RefreshReturn(p, resp) ==
  IF Raises(resp) \/ ~HasKey(resp.access_token) THEN PyNone ELSE resp.access_token

\* complete_youtube_oauth: token_data
YouTubeTokenData(resp, t) ==
  [present |-> TRUE, creds |-> TRUE, access_token |-> resp.access_token,
   refresh_token |-> DictGet(resp.refresh_token),
   expires_in |-> IF resp.expires_in = NoInt THEN DefaultExpiresIn ELSE resp.expires_in,
   refreshed_at |-> t, expires_at |-> NoInt]

\* youtube_oauth_helper.main, choice 1: {client_id, client_secret, **tokens}
HelperTokenData(resp) == [BodyRec(resp) EXCEPT !.creds = TRUE]

\* The record complete_*_oauth writes for an exchange response, or NoRec.
BootstrapWrite(p, resp, t) ==
  CASE Raises(resp) -> NoRec
    [] p = "youtube" ->
         IF HasKey(resp.access_token) THEN YouTubeTokenData(resp, t) ELSE NoRec
    [] p = "spotify" -> SpotifySave(BodyRec(resp), t)
    [] p = "reddit" -> RedditSave(BodyRec(resp), t)

(***************************************************************************)
(* Callers.  th[c] holds the locals of the tool call caller c is running:  *)
(*   pc      "idle", "get" (about to run get_valid_access_token),          *)
(*           "refresh" (about to run the refresh routine), "wait" (refresh *)
(*           request in flight), "status" (YouTube: about to run           *)
(*           get_token_status), "done"                                     *)
(*   entry   the tool, ov its access_token argument                        *)
(*   phase   1, or 2 in the second get_valid_access_token call of          *)
(*           YouTube's _ensure_valid_oauth_token                           *)
(*   tok     the token _ensure_valid_oauth_token holds so far              *)
(*   cur     current_tokens of get_valid_access_token                      *)
(*   req     tokens of the refresh routine                                 *)
(*   resp    the endpoint's answer in flight                               *)
(*   result  what the tool call returned                                   *)
(* h[c] is the history of that call, kept for the properties:              *)
(*   rec0, t0   the record and the clock at the latest                     *)
(*              get_valid_access_token load                                *)
(*   decision   its GetValidDecision, mdone / mret its return              *)
(*   msent      refresh requests it sent; sent, reads: requests sent and   *)
(*              token-file loads of the whole tool call                    *)
(*   got        the answer to the latest refresh request, wrote: the       *)
(*              record that refresh saved (NoRec: none)                    *)
(*   env0       the environment's token when the call started              *)
(*   first      the return of the first get_valid_access_token call        *)
(*   conc       the callers whose tool calls overlapped this one           *)
(***************************************************************************)
IdleTh ==
  [pc |-> "idle", entry |-> "none", ov |-> PyNone, phase |-> 1, tok |-> PyNone,
   cur |-> NoRec, req |-> NoRec, resp |-> NoResp, result |-> PyNone]

IdleH ==
  [rec0 |-> NoRec, t0 |-> 0, decision |-> "none", mdone |-> FALSE,
   mret |-> PyNone, msent |-> 0, sent |-> 0, reads |-> 0, got |-> NoResp,
   wrote |-> NoRec, env0 |-> PyNone, first |-> PyNone, conc |-> {}]

Active(c) == th[c].pc \notin {"idle", "done"}

\* The authorization-code flow of Spotify and Reddit: pc is "none",
\* "authorize" (setup_*_oauth returned the authorization URL), "callback" (the
\* browser was redirected with a code) or "done" (complete_*_oauth returned);
\* state is the state parameter of the authorization URL, cb the state the
\* callback carried, exchanged: the code was sent to the token endpoint,
\* saved: the answer was written to the token file.
IdleFlow ==
  [pc |-> "none", state |-> PyNone, cb |-> PyNone, exchanged |-> FALSE,
   saved |-> FALSE]

\* state values a redirect to the callback URL can carry
CallbackStates == {"st1", "forged"}

\* The device flow of YouTube: pc is "idle", "code" (get_device_code
\* answered), "polling" (poll_for_token runs) or "done"; entry is "tools"
\* (setup_youtube_oauth, then complete_youtube_oauth) or "helper" (main of
\* youtube_oauth_helper); declared and window are the interval and expires_in
\* of the device-code response; interval and attempts are the locals of
\* poll_for_token.  For the properties: start is the interval poll_for_token
\* was called with, waited the seconds between the device code and the first
\* poll, slept the seconds poll_for_token slept, requests the token requests
\* it sent (counted up to max_attempts + 1), slowed the slow_down answers it
\* got, final the terminal error the endpoint answered, late / afterFinal: a
\* request was sent after the window had elapsed / after a terminal answer.
IdlePoll ==
  [pc |-> "idle", entry |-> "none", declared |-> 0, window |-> 0, interval |-> 0,
   attempts |-> 0, start |-> 0, waited |-> 0, slept |-> 0, requests |-> 0,
   slowed |-> 0, final |-> PyNone, late |-> FALSE, afterFinal |-> FALSE,
   result |-> "none"]

\* The token file on disk: disk is "whole" (its bytes are the JSON text of
\* `store`) or "torn" (open(file, "w") has truncated it and json.dump has not
\* finished: the bytes are empty or a prefix of the text); writer is who has
\* it open for writing (a caller, or "boot": a bootstrap).  clears and faults
\* count the clear_tokens calls and the failed I/O operations, fault is the
\* latest failure.
IdleIo ==
  [disk |-> "whole", writer |-> "none", clears |-> 0, faults |-> 0, fault |-> "none"]

\* A save has run to its end: the file holds the whole text.
FileWritten(i) == [i EXCEPT !.disk = "whole", !.writer = "none"]

\* generate_auth_url (Reddit): state = secrets.token_urlsafe(32);
\* get_authorization_url (Spotify): the URL has no state parameter.
GeneratedState(p) == IF p = "reddit" THEN "st1" ELSE PyNone

Init ==
  /\ provider \in Providers
  /\ now = StartTime
  /\ ticks = 0
  /\ store = NoRec
  /\ envTok \in (IF provider = "reddit" THEN {PyNone} ELSE {PyNone, "static"})
  /\ envCreds \in (IF provider = "youtube" THEN {FALSE} ELSE BOOLEAN)
  /\ issued = 0
  /\ calls = 0
  /\ boots = 0
  /\ th = [c \in Callers |-> IdleTh]
  /\ h = [c \in Callers |-> IdleH]
  /\ flow = IdleFlow
  /\ poll = IdlePoll
  /\ io = IdleIo

\* The resolver after get_valid_access_token returned ret, with the
\* environment's token env: the caller's new locals.
AfterManager(p, t, ret, env) ==
  LET token == ResolveToken(p, ret, env)
  IN  CASE t.entry = "force" -> [t EXCEPT !.pc = "done", !.result = ret]
        [] t.entry = "ensure" /\ p = "youtube" /\ t.phase = 1 ->
             IF ~Truthy(token)
               THEN [t EXCEPT !.pc = "done", !.result = AuthError]
               ELSE [t EXCEPT !.pc = "status", !.tok = token]
        [] t.entry = "ensure" /\ p = "youtube" /\ t.phase = 2 ->
             [t EXCEPT !.pc = "done", !.result = IF Truthy(ret) THEN ret ELSE t.tok]
        [] OTHER ->
             [t EXCEPT !.pc = "done",
                       !.result = IF Truthy(token) THEN token ELSE AuthError]

\* A faulty fallback: the stale token of the record is returned without
\* being copied to the environment.
AfterRefreshNoEnv(p, t, refreshed, env) ==
  IF p = "youtube" /\ t.entry # "force" /\ ~Truthy(refreshed)
    THEN <<DictGet(t.cur.access_token), env>>
    ELSE <<refreshed, env>>

\* get_valid_access_token (or the manual refresh tool) after the refresh
\* routine returned `refreshed`: <<its return value, the environment's token>>.
AfterRefresh(p, t, refreshed, env) ==
  IF p = "youtube" /\ t.entry # "force" /\ ~Truthy(refreshed)
    THEN LET access_token == DictGet(t.cur.access_token)
         IN  <<access_token, IF Truthy(access_token) THEN access_token ELSE env>>
    ELSE <<refreshed, env>>

\* A caller invokes a tool.  An override the resolver accepts is returned at
\* once; otherwise the call goes on to the token manager.
Call(c, e, o) ==
  /\ ~Active(c)
  /\ calls < MaxCalls
  /\ e \in Entries(provider)
  /\ o \in (IF e \in {"force", "auto"} THEN {PyNone} ELSE Overrides)
  /\ calls' = calls + 1
  /\ th' = [th EXCEPT ![c] =
        IF e = "force" THEN [IdleTh EXCEPT !.pc = "refresh", !.entry = e]
        ELSE IF UsesOverride(provider, o)
          THEN [IdleTh EXCEPT !.pc = "done", !.entry = e, !.ov = o, !.result = o]
          ELSE [IdleTh EXCEPT !.pc = "get", !.entry = e, !.ov = o]]
  /\ h' = [d \in Callers |->
        IF d = c THEN [IdleH EXCEPT !.env0 = envTok,
                                   !.conc = {x \in Callers \ {c} : Active(x)}]
        ELSE IF Active(d) THEN [h[d] EXCEPT !.conc = @ \cup {c}]
        ELSE h[d]]
  /\ UNCHANGED <<provider, now, ticks, store, envTok, envCreds, issued, boots, flow, poll, io>>

\* get_valid_access_token up to its return or its call of the refresh routine.
GetValid(c) ==
  /\ th[c].pc = "get"
  /\ LET current_tokens == LoadTokens
         d == GetValidDecision(provider, current_tokens, now)
         ret == IF d = "fresh" THEN DictGet(current_tokens.access_token) ELSE PyNone
         env == IF d = "fresh" /\ provider = "youtube" THEN ret ELSE envTok
         t == [th[c] EXCEPT !.cur = current_tokens]
         hh == [h[c] EXCEPT !.rec0 = current_tokens, !.t0 = now, !.decision = d,
                            !.msent = 0, !.reads = @ + 1]
     IN  IF d = "refresh"
           THEN /\ th' = [th EXCEPT ![c] = [t EXCEPT !.pc = "refresh"]]
                /\ h' = [h EXCEPT ![c] = [hh EXCEPT !.mdone = FALSE]]
                /\ envTok' = envTok
           ELSE /\ th' = [th EXCEPT ![c] = AfterManager(provider, t, ret, env)]
                /\ h' = [h EXCEPT ![c] =
                      [hh EXCEPT !.mdone = TRUE, !.mret = ret,
                                 !.first = IF t.phase = 1 THEN ret ELSE @]]
                /\ envTok' = env
  /\ UNCHANGED <<provider, now, ticks, store, envCreds, issued, calls, boots, flow, poll, io>>

\* The refresh routine can send its request: the record and the client
\* credentials it needs are there.
CanSend(p, e, tokens) ==
  CASE p = "youtube" ->
         ~NoTokens(tokens) /\ tokens.creds /\ HasKey(tokens.refresh_token)
    [] p = "spotify" ->
         ~NoTokens(tokens) /\ HasKey(tokens.refresh_token) /\ envCreds
    [] p = "reddit" ->
         /\ e = "force" => ~NoTokens(tokens) /\ HasKey(tokens.refresh_token)
         /\ envCreds
         \* under _make_reddit_api_request an event loop is running, and
         \* asyncio.run raises RuntimeError before the request is made
         /\ e # "api"

\* The refresh routine up to its request: _refresh_access_token (YouTube),
\* refresh_access_token (Spotify), _refresh_token (Reddit; the manual tool
\* refresh_reddit_token loads the record first).  The endpoint answers.
RefreshSend(c, resp) ==
  /\ th[c].pc = "refresh"
  /\ LET loads == ~(provider = "reddit" /\ th[c].entry # "force")
         tokens == IF loads THEN LoadTokens ELSE th[c].cur
         hh == [h[c] EXCEPT !.reads = IF loads THEN @ + 1 ELSE @]
     IN  IF CanSend(provider, th[c].entry, tokens)
           THEN /\ resp \in RefreshResps(tokens.refresh_token, issued + 1)
                /\ issued' = IF resp.kind = "ok" THEN issued + 1 ELSE issued
                /\ th' = [th EXCEPT ![c] =
                      [@ EXCEPT !.pc = "wait", !.req = tokens, !.resp = resp]]
                /\ h' = [h EXCEPT ![c] =
                      [hh EXCEPT !.sent = @ + 1, !.msent = @ + 1]]
                /\ envTok' = envTok
           ELSE /\ resp = NoResp
                /\ issued' = issued
                /\ LET r == AfterRefresh(provider, th[c], PyNone, envTok)
                   IN  /\ th' = [th EXCEPT ![c] =
                             AfterManager(provider, th[c], r[1], r[2])]
                       /\ h' = [h EXCEPT ![c] =
                             [hh EXCEPT !.mdone = th[c].entry # "force", !.mret = r[1],
                                        !.first = IF th[c].phase = 1 THEN r[1] ELSE @]]
                       /\ envTok' = r[2]
  /\ UNCHANGED <<provider, now, ticks, store, envCreds, calls, boots, flow, poll, io>>

\* The answer arrives: the refresh routine saves the new record and returns,
\* and its caller goes on.
RefreshRecv(c) ==
  /\ th[c].pc = "wait"
  /\ LET resp == th[c].resp
         written == RefreshWrite(provider, th[c].req, resp, now)
         refreshed == RefreshReturn(provider, resp)
         env1 == IF provider = "youtube" /\ Truthy(refreshed) THEN refreshed ELSE envTok
         r == AfterRefresh(provider, th[c], refreshed, env1)
         t == [th[c] EXCEPT !.resp = NoResp]
     IN  /\ store' = IF written.present THEN written ELSE store
         /\ io' = IF written.present THEN FileWritten(io) ELSE io
         /\ envTok' = r[2]
         /\ th' = [th EXCEPT ![c] = AfterManager(provider, t, r[1], r[2])]
         /\ h' = [h EXCEPT ![c] =
               [@ EXCEPT !.mdone = th[c].entry # "force", !.mret = r[1],
                         !.got = resp, !.wrote = written,
                         !.first = IF th[c].phase = 1 THEN r[1] ELSE @]]
  /\ UNCHANGED <<provider, now, ticks, envCreds, issued, calls, boots, flow, poll>>

\* YouTube's _ensure_valid_oauth_token after it has a token: get_token_status,
\* and a second get_valid_access_token when the status asks for a refresh.
Status(c) ==
  /\ th[c].pc = "status"
  /\ LET tokens == LoadTokens
     IN  th' = [th EXCEPT ![c] =
           IF NoTokens(tokens) \/ ~StatusNeedsRefresh(tokens, now)
             THEN [@ EXCEPT !.pc = "done", !.result = th[c].tok]
             ELSE [@ EXCEPT !.pc = "get", !.phase = 2]]
  /\ h' = [h EXCEPT ![c] = [@ EXCEPT !.reads = @ + 1]]
  /\ UNCHANGED <<provider, now, ticks, store, envTok, envCreds, issued, calls, boots, flow, poll, io>>

\* setup_spotify_oauth / setup_reddit_oauth: the authorization URL is handed
\* to the user.
SetupOAuth ==
  /\ provider \in {"spotify", "reddit"}
  /\ flow.pc \in {"none", "done"}
  /\ boots < MaxBoots
  /\ flow' = [IdleFlow EXCEPT !.pc = "authorize", !.state = GeneratedState(provider)]
  /\ UNCHANGED <<provider, now, ticks, store, envTok, envCreds, issued, calls, boots,
                 th, h, poll, io>>

\* The browser is redirected to the callback URL with a code and the state s;
\* the user copies the code from it.
Callback(s) ==
  /\ flow.pc = "authorize"
  /\ flow' = [flow EXCEPT !.pc = "callback", !.cb = s]
  /\ UNCHANGED <<provider, now, ticks, store, envTok, envCreds, issued, calls, boots,
                 th, h, poll, io>>

\* complete_youtube_oauth / complete_spotify_oauth / complete_reddit_oauth:
\* the code exchange is answered and the first record is written.
Bootstrap(resp) ==
  /\ boots < MaxBoots
  /\ resp \in ExchangeResps(issued + 1)
  /\ LET written == BootstrapWrite(provider, resp, now)
     IN  /\ io.writer = "boot" => written.present
         /\ store' = IF written.present THEN written ELSE store
         /\ io' = IF written.present THEN FileWritten(io) ELSE io
         /\ envTok' = IF provider = "youtube" /\ written.present
                         THEN resp.access_token ELSE envTok
         /\ flow' = IF flow.pc = "callback"
                       THEN [flow EXCEPT !.pc = "done", !.exchanged = TRUE,
                                         !.saved = written.present]
                       ELSE flow
  /\ issued' = IF resp.kind = "ok" THEN issued + 1 ELSE issued
  /\ boots' = boots + 1
  /\ UNCHANGED <<provider, now, ticks, envCreds, calls, th, h, poll>>

\* youtube_oauth_helper.main, choice 1: the command-line helper writes the
\* record of a device-code grant.
HelperBootstrap(resp) ==
  /\ provider = "youtube"
  /\ boots < MaxBoots
  /\ resp \in OkResps(issued + 1, {RefreshTok(issued + 1)}, ExpiresChoices)
  /\ store' = HelperTokenData(resp)
  /\ io' = FileWritten(io)
  /\ issued' = issued + 1
  /\ boots' = boots + 1
  /\ UNCHANGED <<provider, now, ticks, envTok, envCreds, calls, th, h, flow, poll>>

(***************************************************************************)
(* The token file as a file.  The save functions open it with mode "w",    *)
(* which truncates it, and then json.dump the record into it; the load     *)
(* functions read whatever bytes are there.  An I/O operation can fail.    *)
(***************************************************************************)
\* A save has opened the file for writing and not yet written the text: the
\* save of the refresh answer caller w waits for, or of a bootstrap ("boot").
OpenForWrite(w) ==
  /\ io.disk = "whole"
  /\ \/ /\ w \in Callers
        /\ th[w].pc = "wait"
        /\ RefreshWrite(provider, th[w].req, th[w].resp, now).present
     \/ /\ w = "boot"
        /\ boots < MaxBoots
  /\ io' = [io EXCEPT !.disk = "torn", !.writer = w]
  /\ UNCHANGED <<provider, now, ticks, store, envTok, envCreds, issued, calls, boots,
                 th, h, flow, poll>>

\* The ways loading the record can fail: "mkdir" (RedditTokenManager.__init__
\* cannot create the directory of the file), "exists" (Path.exists raises,
\* e.g. PermissionError), "open" (open raises OSError), "json" (the text does
\* not parse), "unicode" (the bytes are not UTF-8).
LoadFaults(p) ==
  CASE p = "youtube" -> {"open", "json", "unicode"}
    [] p = "spotify" -> {"exists", "open", "json", "unicode"}
    [] p = "reddit" -> {"mkdir", "exists", "open", "json", "unicode"}

\* What the load does with the failure f: "none" (it returns None) or
\* "raise".  _load_tokens (YouTube) and load_tokens (Spotify) catch Exception
\* around open and json.load; load_tokens (Reddit) catches JSONDecodeError
\* and IOError.
LoadOutcome(p, f) ==
  CASE p = "youtube" -> "none"
    [] p = "spotify" -> IF f = "exists" THEN "raise" ELSE "none"
    [] p = "reddit" -> IF f \in {"open", "json"} THEN "none" ELSE "raise"

\* An exception of the token manager is caught on its way out of the call:
\* by the try of _get_valid_oauth_token (YouTube, Spotify) or of the tool
\* auto_refresh_reddit_token_if_needed; _make_reddit_api_request has none.
ResolverCatches(p, e) == p # "reddit" \/ e # "api"

\* get_valid_access_token when loading the record fails with f.
GetValidFault(c, f) ==
  /\ th[c].pc = "get"
  /\ io.faults < MaxFaults
  /\ f \in LoadFaults(provider)
  /\ LET t == [th[c] EXCEPT !.cur = NoRec]
         hh == [h[c] EXCEPT !.rec0 = NoRec, !.t0 = now, !.decision = "none",
                            !.msent = 0, !.reads = @ + 1]
     IN  IF LoadOutcome(provider, f) = "raise" /\ ~ResolverCatches(provider, th[c].entry)
           THEN /\ th' = [th EXCEPT ![c] = [t EXCEPT !.pc = "done", !.result = Raised]]
                /\ h' = [h EXCEPT ![c] = hh]
           ELSE /\ th' = [th EXCEPT ![c] = AfterManager(provider, t, PyNone, envTok)]
                /\ h' = [h EXCEPT ![c] =
                      [hh EXCEPT !.mdone = TRUE, !.mret = PyNone,
                                 !.first = IF t.phase = 1 THEN PyNone ELSE @]]
  /\ io' = [io EXCEPT !.faults = @ + 1, !.fault = f]
  /\ UNCHANGED <<provider, now, ticks, store, envTok, envCreds, issued, calls, boots,
                 flow, poll>>

\* The refresh answer carries a token but saving it fails: _save_tokens
\* returns False (YouTube), save_tokens raises and the refresh routine
\* catches it (Spotify, Reddit); the routine returns None.  The file is as it
\* was when open failed, and truncated when the write failed.
RefreshRecvFault(c, truncated) ==
  /\ th[c].pc = "wait"
  /\ io.faults < MaxFaults
  /\ RefreshWrite(provider, th[c].req, th[c].resp, now).present
  /\ LET r == AfterRefresh(provider, th[c], PyNone, envTok)
         t == [th[c] EXCEPT !.resp = NoResp]
     IN  /\ envTok' = r[2]
         /\ th' = [th EXCEPT ![c] = AfterManager(provider, t, r[1], r[2])]
         /\ h' = [h EXCEPT ![c] =
               [@ EXCEPT !.mdone = th[c].entry # "force", !.mret = r[1],
                         !.got = th[c].resp, !.wrote = NoRec,
                         !.first = IF th[c].phase = 1 THEN r[1] ELSE @]]
  /\ io' = [io EXCEPT !.faults = @ + 1, !.fault = "save", !.writer = "none",
                      !.disk = IF truncated THEN "torn" ELSE @]
  /\ UNCHANGED <<provider, now, ticks, store, envCreds, issued, calls, boots, flow, poll>>

\* A faulty clear_tokens: the file is left where it is.
ClearKeepsFile ==
  /\ provider \in {"spotify", "reddit"}
  /\ io.clears < MaxClears
  /\ io.disk = "whole"
  /\ io' = [io EXCEPT !.clears = @ + 1]
  /\ UNCHANGED <<provider, now, ticks, store, envTok, envCreds, issued, calls, boots,
                 th, h, flow, poll>>

\* clear_tokens (Spotify, Reddit; YouTubeTokenManager has none): the file is
\* unlinked when it exists.
Clear ==
  /\ provider \in {"spotify", "reddit"}
  /\ io.clears < MaxClears
  /\ io.disk = "whole"
  /\ store' = NoRec
  /\ io' = [io EXCEPT !.clears = @ + 1]
  /\ UNCHANGED <<provider, now, ticks, envTok, envCreds, issued, calls, boots,
                 th, h, flow, poll>>

(***************************************************************************)
(* The device flow.  An answer of the token endpoint to a poll is a JSON   *)
(* body the client parses (delivery "body": a token response, or an error  *)
(* object) or an HTTP error status, for which urlopen raises HTTPError     *)
(* (delivery "raise"; error "transport" is a failure of the connection).   *)
(***************************************************************************)
PollAnswer(delivery, error, body) == [delivery |-> delivery, error |-> error, body |-> body]

TerminalErrors == {"access_denied", "expired_token"}

\* An error answer, either way it can arrive.
ErrorAnswers(E) == {PollAnswer(d, e, NoResp) : d \in {"body", "raise"}, e \in E}

\* What the endpoint can answer to the next poll of pl: after the window of
\* the device code only expired_token, after a terminal error that error
\* again, slow_down only to the polls SlowDownAt, a token once the user has
\* authorized.
PollAnswers(pl, n) ==
  {PollAnswer("raise", "transport", NoResp)} \cup
  (IF pl.final # PyNone THEN ErrorAnswers({pl.final})
   ELSE IF pl.waited + pl.slept >= pl.window THEN ErrorAnswers({"expired_token"})
   ELSE ErrorAnswers({"authorization_pending", "access_denied"})
          \cup (IF pl.attempts \in SlowDownAt THEN ErrorAnswers({"slow_down"}) ELSE {})
          \cup {PollAnswer("body", PyNone, r) :
                  r \in OkResps(n, {RefreshTok(n)}, RefreshExpires)})

\* A faulty loop body: on authorization_pending it polls again at once,
\* without sleeping or counting the attempt.
PollHandleUncounted(interval, attempts, ans) ==
  IF ans.delivery = "raise" THEN <<interval, attempts + 1, interval, "none">>
  ELSE IF HasKey(ans.body.access_token) THEN <<interval, attempts, 0, "token">>
  ELSE IF ans.error = "authorization_pending"
    THEN <<interval, attempts, 0, "none">>
  ELSE IF ans.error = "slow_down"
    THEN <<interval + 1, attempts + 1, interval + 1, "none">>
  ELSE <<interval, attempts, 0, "failed">>

\* The body of the while loop of poll_for_token for the answer ans: the new
\* locals <<interval, attempts>>, the seconds slept, and what it returns
\* ("none": it goes on).
PollHandle(interval, attempts, ans) ==
  IF ans.delivery = "raise" THEN <<interval, attempts + 1, interval, "none">>
  ELSE IF HasKey(ans.body.access_token) THEN <<interval, attempts, 0, "token">>
  ELSE IF ans.error = "authorization_pending"
    THEN <<interval, attempts + 1, interval, "none">>
  ELSE IF ans.error = "slow_down"
    THEN <<interval + 1, attempts + 1, interval + 1, "none">>
  ELSE <<interval, attempts, 0, "failed">>

\* get_device_code, called by setup_youtube_oauth ("tools") or by main
\* ("helper"): the endpoint declares the polling interval iv.
GetDeviceCode(e, iv) ==
  /\ provider = "youtube"
  /\ poll.pc = "idle"
  /\ e \in {"tools", "helper"}
  /\ poll' = [IdlePoll EXCEPT !.pc = "code", !.entry = e, !.declared = iv,
                              !.window = DeviceExpiresIn]
  /\ UNCHANGED <<provider, now, ticks, store, envTok, envCreds, issued, calls, boots,
                 th, h, flow, io>>

\* d seconds later the user calls complete_youtube_oauth, or presses Enter in
\* main: poll_for_token starts.
StartPoll(d) ==
  /\ poll.pc = "code"
  /\ LET interval == IF poll.entry = "helper" THEN poll.declared ELSE DefaultInterval
     IN  poll' = [poll EXCEPT !.pc = "polling", !.interval = interval,
                              !.start = interval, !.waited = d]
  /\ now' = now + d
  /\ UNCHANGED <<provider, ticks, store, envTok, envCreds, issued, calls, boots,
                 th, h, flow, io>>

\* One turn of the loop of poll_for_token: a token request and its answer.
\* With a token the caller (complete_youtube_oauth, main) writes the token
\* file; at max_attempts the loop ends.
PollStep(ans) ==
  /\ poll.pc = "polling"
  /\ ans \in PollAnswers(poll, issued + 1)
  /\ LET r == PollHandle(poll.interval, poll.attempts, ans)
         ret == IF r[4] = "none" /\ r[2] >= MaxAttempts THEN "timeout" ELSE r[4]
         written == IF ret # "token" THEN NoRec
                    ELSE IF poll.entry = "helper" THEN HelperTokenData(ans.body)
                    ELSE YouTubeTokenData(ans.body, now)
     IN  /\ poll' = [poll EXCEPT
               !.pc = IF ret = "none" THEN "polling" ELSE "done",
               !.interval = r[1], !.attempts = r[2], !.slept = @ + r[3],
               !.requests = IF @ <= MaxAttempts THEN @ + 1 ELSE @,
               !.slowed = IF ans.error = "slow_down" THEN @ + 1 ELSE @,
               !.final = IF ans.error \in TerminalErrors THEN ans.error ELSE @,
               !.late = @ \/ poll.waited + poll.slept >= poll.window,
               !.afterFinal = @ \/ poll.final # PyNone,
               !.result = ret]
         /\ now' = now + r[3]
         /\ store' = IF written.present THEN written ELSE store
         /\ io' = IF written.present THEN FileWritten(io) ELSE io
         /\ envTok' = IF written.present /\ poll.entry = "tools"
                         THEN ans.body.access_token ELSE envTok
         /\ issued' = IF ret = "token" THEN issued + 1 ELSE issued
  /\ UNCHANGED <<provider, ticks, envCreds, calls, boots, th, h, flow>>

\* time.time() moves on, between tool calls and while a request is in flight
\* (the code between two I/O operations takes no time).
Tick(d) ==
  /\ \A c \in Callers : th[c].pc \in {"idle", "done", "wait"}
  /\ ticks < MaxTicks
  /\ ticks' = ticks + 1
  /\ now' = now + d
  /\ UNCHANGED <<provider, store, envTok, envCreds, issued, calls, boots, th, h, flow, poll, io>>

\* One server process: its tool calls run one after the other.
Next ==
  \/ \E c \in SeqCallers, e \in {"ensure", "get", "api", "auto", "force"}, o \in Overrides :
       Call(c, e, o)
  \/ \E c \in SeqCallers : GetValid(c)
  \/ \E c \in SeqCallers, resp \in RefreshResps("rt", issued + 1) \cup {NoResp} :
       RefreshSend(c, resp)
  \/ \E c \in SeqCallers : RefreshRecv(c)
  \/ \E c \in SeqCallers : Status(c)
  \/ \E resp \in ExchangeResps(issued + 1) :
       (\A c \in Callers : ~Active(c)) /\ Bootstrap(resp)
  \/ \E resp \in OkResps(issued + 1, {RefreshTok(issued + 1)}, ExpiresChoices) :
       HelperBootstrap(resp)
  \/ \E d \in TickSteps : Tick(d)

Spec == Init /\ [][Next]_vars

(***************************************************************************)
(* Concurrent callers: several request-handling units (server processes of *)
(* several clients, the refresh scripts) run tool calls against one token  *)
(* file, interleaved at each I/O operation.  No override is passed, and    *)
(* the code exchange declares the usual expires_in.                        *)
(***************************************************************************)
ConcExchangeResps(n) == OkResps(n, {RefreshTok(n)}, RefreshExpires)

NextConc ==
  \/ \E c \in Callers, e \in {"ensure", "get", "api", "auto", "force"} :
       Call(c, e, PyNone)
  \/ \E c \in Callers : GetValid(c)
  \/ \E c \in Callers, resp \in RefreshResps("rt", issued + 1) \cup {NoResp} :
       RefreshSend(c, resp)
  \/ \E c \in Callers : RefreshRecv(c)
  \/ \E c \in Callers : Status(c)
  \/ \E resp \in ConcExchangeResps(issued + 1) : Bootstrap(resp)
  \/ \E resp \in ConcExchangeResps(issued + 1) : HelperBootstrap(resp)
  \/ \E d \in TickSteps : Tick(d)

SpecConc == Init /\ [][NextConc]_vars

(***************************************************************************)
(* The authorization-code bootstrap of Spotify and Reddit on its own.      *)
(***************************************************************************)
NextAuth ==
  \/ SetupOAuth
  \/ \E s \in CallbackStates : Callback(s)
  \/ \E resp \in ExchangeResps(issued + 1) : Bootstrap(resp)
  \/ \E d \in TickSteps : Tick(d)

SpecAuth == Init /\ [][NextAuth]_vars

(***************************************************************************)
(* The device-flow bootstrap of YouTube on its own.  A running             *)
(* poll_for_token goes on: urlopen returns or raises, time.sleep returns.  *)
(***************************************************************************)
PollLoop == \E ans \in PollAnswers(poll, issued + 1) : PollStep(ans)

NextPoll ==
  \/ \E e \in {"tools", "helper"}, iv \in DeclaredIntervals : GetDeviceCode(e, iv)
  \/ \E d \in PollDelays : StartPoll(d)
  \/ PollLoop

SpecPoll == Init /\ [][NextPoll]_vars

SpecPollLive == SpecPoll /\ WF_vars(PollLoop)

(***************************************************************************)
(* One server process whose token file can also be cleared.                *)
(***************************************************************************)
NextClear ==
  \/ Next
  \/ (\A c \in Callers : ~Active(c)) /\ Clear

SpecClear == Init /\ [][NextClear]_vars

(***************************************************************************)
(* Concurrent callers on a token file whose saves take time and whose I/O  *)
(* can fail.                                                               *)
(***************************************************************************)
NextStore ==
  \/ NextConc
  \/ \E w \in Callers \cup {"boot"} : OpenForWrite(w)
  \/ \E c \in Callers, f \in {"mkdir", "exists", "open", "json", "unicode"} :
       GetValidFault(c, f)
  \/ \E c \in Callers, truncated \in BOOLEAN : RefreshRecvFault(c, truncated)

SpecStore == Init /\ [][NextStore]_vars

(***************************************************************************)
(* Properties.                                                             *)
(*                                                                         *)
(* The expiry instant of a record is refreshed_at + expires_in.  A Spotify *)
(* record stores no refreshed_at: save_tokens stores that sum itself, as   *)
(* expires_at, so for Spotify the issuance timestamp is there when         *)
(* expires_at is.                                                          *)
(***************************************************************************)
HasExpiry(p, rec) ==
  IF p = "spotify" THEN rec.expires_at # NoInt ELSE rec.expires_in # NoInt

Remaining(p, rec, t) ==
  IF p = "spotify"
    THEN rec.expires_at - t
    ELSE (GetInt(rec.refreshed_at) + rec.expires_in) - t

\* The record has no issuance timestamp (refreshed_at is 0 or missing).
NoIssuanceTime(p, rec) ==
  IF p = "spotify" THEN rec.expires_at = NoInt ELSE GetInt(rec.refreshed_at) = 0

\* Caller c's latest get_valid_access_token call has returned.
Returned(c) == h[c].mdone /\ th[c].entry # "force"

\* That call loaded a record with an access_token and an expiry instant.
LoadedRecord(c) ==
  /\ h[c].rec0.present
  /\ Truthy(h[c].rec0.access_token)
  /\ HasExpiry(provider, h[c].rec0)

\* Requests to the provider's token endpoint that are in flight.
InFlight == {c \in Callers : th[c].pc = "wait"}

\* C1: at every instant at most one refresh request to the provider's token
\* endpoint is in flight, whatever the interleaving of the concurrent callers.
C1_SingleFlight == Cardinality(InFlight) <= 1

\* C2: callers that ask for a token concurrently while the stored record has
\* remaining <= 300 cause one refresh request between them, and all receive
\* the same token (or the same error).
C2_OneRefreshForAll ==
  \A c, d \in Callers :
    ( /\ c # d
      /\ th[c].pc = "done" /\ th[d].pc = "done"
      /\ d \in h[c].conc /\ c \in h[d].conc
      /\ Returned(c) /\ Returned(d)
      /\ LoadedRecord(c) /\ LoadedRecord(d)
      /\ Remaining(provider, h[c].rec0, h[c].t0) <= RefreshBuffer
      /\ Remaining(provider, h[d].rec0, h[d].t0) <= RefreshBuffer )
    => /\ h[c].sent + h[d].sent <= 1
       /\ th[c].result = th[d].result

\* The call returned the stored access_token as it was, without a refresh.
ReturnedStored(c) ==
  /\ h[c].decision = "fresh"
  /\ h[c].mret = h[c].rec0.access_token
  /\ h[c].msent = 0

\* A get_valid_access_token step of c that returns the stored token.
FreshReturn(c) ==
  /\ th[c].pc = "get" /\ th'[c] # th[c]
  /\ h'[c].mdone /\ h'[c].decision = "fresh"

WithinMaxAge(p, rec, t) ==
  p = "youtube" =>
    GetInt(rec.refreshed_at) # 0 /\ t - GetInt(rec.refreshed_at) < MaxTokenAge

C4_StaleAttemptsRefresh ==
  \A c \in Callers :
    (Returned(c) /\ LoadedRecord(c)
       /\ Remaining(provider, h[c].rec0, h[c].t0) <= RefreshBuffer
       /\ Truthy(h[c].mret))
    => h[c].decision = "refresh"

\* The resolver call of c has ended and did not use the caller's token.
Resolved(c) ==
  /\ th[c].pc = "done"
  /\ th[c].entry # "force"
  /\ ~UsesOverride(provider, th[c].ov)

\* C5: when the endpoint answers the refresh with a permanent auth error,
\* the caller receives no token (not the stale stored one either) but an
\* auth-required error.
C5_PermanentErrorSurfaces ==
  \A c \in Callers :
    (Resolved(c) /\ h[c].got.kind = "perm") => th[c].result = AuthError

\* C6: when the refresh of a stale record fails with a transient error and
\* the stored record holds an access_token, the caller receives that stale
\* access_token.
C6_TransientReturnsStale ==
  \A c \in Callers :
    (Resolved(c) /\ h[c].got.kind = "transient" /\ Truthy(h[c].rec0.access_token))
    => th[c].result = h[c].rec0.access_token

\* C7: after a successful refresh the stored refresh_token is the response's
\* refresh_token when it has one, and the previously stored refresh_token
\* (the one the refresh was made with) when it has none.
C7_RefreshTokenCarriedOver ==
  \A c \in Callers :
    (h[c].got.kind = "ok" /\ h[c].wrote.present)
    => h[c].wrote.refresh_token =
         IF HasKey(h[c].got.refresh_token)
           THEN h[c].got.refresh_token
           ELSE th[c].req.refresh_token

\* An override as the resolver contract defines it: non-empty, not
\* whitespace-only, not the sentinel "null".
ExplicitOverride(o) == Truthy(o) /\ Strip(o) # "" /\ o # "null"

\* C8: an explicit override is returned as it is, without reading the store
\* and without a refresh call; an empty, whitespace-only or "null" override
\* is treated as no override (the resolver goes to the store).
C8_OverridePolicy ==
  \A c \in Callers :
    (th[c].pc = "done" /\ th[c].entry \notin {"none", "force"})
    => IF ExplicitOverride(th[c].ov)
         THEN th[c].result = th[c].ov /\ h[c].reads = 0 /\ h[c].sent = 0
         ELSE h[c].reads > 0

\* The environment holds a static access token for the provider.
StaticToken(p, env) == p # "reddit" /\ Truthy(env) /\ Strip(env) # ""

\* The tokens the token manager handed to the resolver call of c.
Managed(c) == {x \in {h[c].first, h[c].mret} : Truthy(x)}

\* C9: without override the resolver returns a managed token whenever the
\* token manager yields one; only when it yields none does it return the
\* static token of the environment, and only when there is none either, the
\* auth-required error.
C9_Priority ==
  \A c \in Callers :
    Resolved(c) =>
      /\ Truthy(h[c].first) => th[c].result \in Managed(c)
      /\ (~Truthy(h[c].first) /\ StaticToken(provider, h[c].env0))
           => th[c].result \in {h[c].env0} \cup Managed(c)
      /\ (~Truthy(h[c].first) /\ ~StaticToken(provider, h[c].env0))
           => th[c].result = AuthError
      /\ th[c].result # PyNone

\* C9 witness: with no record in the store the resolver returned the static
\* token.
C9_Witness ==
  \E c \in Callers :
    /\ Resolved(c)
    /\ ~h[c].rec0.present /\ h[c].reads > 0
    /\ StaticToken(provider, h[c].env0)
    /\ th[c].result = h[c].env0

\* C10: a record without issuance timestamp (refreshed_at 0 or missing) is
\* never classified as fresh, whatever its expires_in:
\* get_valid_access_token goes to the refresh routine.
C10_NoTimestampIsExpired ==
  \A c \in Callers :
    ( /\ th[c].entry \notin {"none", "force"}
      /\ h[c].reads > 0
      /\ h[c].rec0.present
      /\ provider # "reddit"
      /\ NoIssuanceTime(provider, h[c].rec0) )
    => h[c].decision = "refresh"

\* C10 witness: a YouTube record without refreshed_at, with an expires_in of
\* two hours, was sent to the refresh routine.
C10_Witness ==
  \E c \in Callers :
    /\ provider = "youtube"
    /\ h[c].rec0.present
    /\ h[c].rec0.refreshed_at = NoInt
    /\ h[c].rec0.expires_in = 7200
    /\ h[c].decision = "refresh"
    /\ h[c].sent > 0

\* C11: when the callback of an authorization-code flow carries a state
\* other than the one generated for the flow, the code is not sent to the
\* token endpoint and no record is written.
C11_StateMismatchStopsFlow ==
  (flow.pc \in {"callback", "done"} /\ Truthy(flow.state) /\ flow.cb # flow.state)
    => ~flow.exchanged /\ ~flow.saved

\* The refresh answer of caller c arrives and is a token response.
RefreshSucceeds(c) ==
  /\ th[c].pc = "wait" /\ th'[c].pc # "wait"
  /\ th[c].resp.kind = "ok"

\* The issuance timestamp of a record: refreshed_at, and for Spotify, which
\* stores the expiry instant, expires_at - expires_in.
IssuedAt(p, rec) ==
  IF p = "spotify" THEN rec.expires_at - rec.expires_in ELSE rec.refreshed_at

\* C12: when a refresh succeeds, the record in the token file gets the time
\* of the refresh as its issuance timestamp and the access_token of the
\* response, and the refresh returns that stored access_token.
C12_RefreshPersistsThenReturns ==
  [][\A c \in Callers :
       RefreshSucceeds(c) =>
         /\ store'.present
         /\ store'.access_token = th[c].resp.access_token
         /\ IssuedAt(provider, store') = now
         /\ h'[c].mret = store'.access_token
         /\ th'[c].pc = "done" => th'[c].result = store'.access_token]_vars

\* C12 witness: a resolver call found a stale record, refreshed it and
\* returned the token that is now in the token file.
C12_Witness ==
  \E c \in Callers :
    /\ th[c].pc = "done" /\ th[c].entry # "force"
    /\ LoadedRecord(c)
    /\ Remaining(provider, h[c].rec0, h[c].t0) <= RefreshBuffer
    /\ h[c].got.kind = "ok"
    /\ h[c].wrote.present
    /\ store = h[c].wrote
    /\ th[c].result = store.access_token
    /\ th[c].result # h[c].rec0.access_token

\* The keys of the error object a tool returns when the resolver has no
\* token.
RequiredScopesNamed(p) == "required_scopes" \in ErrorObject(p)
BootstrapNamed(p) ==
  ErrorObject(p) \cap {"setup_instructions", "next_steps", "next_tool"} # {}

\* C13: every resolver call ends with a non-empty bearer token or with an
\* auth-required error object that names the required scopes and the
\* bootstrap step to run.
C13_TokenOrActionableError ==
  \A c \in Callers :
    (th[c].pc = "done" /\ th[c].entry \notin {"none", "force", "auto"}) =>
      IF th[c].result = AuthError
        THEN RequiredScopesNamed(provider) /\ BootstrapNamed(provider)
        ELSE Truthy(th[c].result)

\* poll_for_token has ended without a token.
PollFailed == poll.pc = "done" /\ poll.result \in {"failed", "timeout"}

\* C14: a poll_for_token run that never receives an access_token ends with a
\* failure result, whatever the endpoint answers: it sends at most
\* max_attempts requests and never loops forever.
C14_PollingTerminates ==
  /\ [](poll.requests <= MaxAttempts /\ poll.attempts <= MaxAttempts)
  /\ [](poll.pc = "done" => poll.result \in {"token", "failed", "timeout"})
  /\ (poll.pc = "polling") ~> (poll.pc = "done")

\* C14 witness: the endpoint never answered a token and never a terminal
\* error in the body, and the poll ended with a timeout.
C14_Witness ==
  /\ PollFailed
  /\ poll.result = "timeout"
  /\ poll.requests = MaxAttempts

\* C15: no token request is sent after the expires_in window of the device
\* code has elapsed, and polling does not end with a timeout before the
\* window has elapsed.
C15_BoundedByWindow ==
  /\ ~poll.late
  /\ poll.result = "timeout" => poll.waited + poll.slept >= poll.window

\* C16: an access_denied or expired_token answer ends the poll at once with
\* a failure, and no request is sent after it, whether it arrives as a JSON
\* body or as an HTTP error status.
C16_TerminalErrorsStop ==
  poll.final # PyNone =>
    /\ PollFailed /\ poll.result = "failed"
    /\ ~poll.afterFinal

\* C17: authorization_pending leaves the interval as it is, every slow_down
\* answer increases it, and it never decreases.
C17_IntervalMonotone ==
  poll.pc \in {"polling", "done"} =>
    /\ poll.interval >= poll.start + poll.slowed
    /\ poll.slowed = 0 => poll.interval = poll.start

\* C18: polling starts with the interval the device-code response declared,
\* in the helper and in the setup / complete tools.
C18_StartsWithDeclaredInterval ==
  poll.pc \in {"polling", "done"} => poll.start = poll.declared

\* C19: poll_for_token called with interval = 5 sleeps at most 300 seconds
\* in all and sends at most 60 token requests.
C19_FiveMinutes ==
  poll.start = DefaultInterval => poll.slept <= 300 /\ poll.requests <= 60

\* C20: the token file holds no record, or a record with a non-empty
\* access_token.
C20_RecordHasAccessToken == store.present => Truthy(store.access_token)

\* Caller c's resolver call has ended after get_valid_access_token sent a
\* record that holds the tokens of a grant to the refresh routine.
RefreshWasDue(c) ==
  /\ th[c].pc = "done"
  /\ th[c].entry \notin {"none", "force"}
  /\ h[c].decision = "refresh"
  /\ Truthy(h[c].rec0.access_token)
  /\ Truthy(h[c].rec0.refresh_token)

\* C23: a refresh needs only the record a successful bootstrap wrote: the
\* refresh request is sent with the client credentials of the record, also
\* when the environment supplies none.
C23_RefreshNeedsOnlyRecord ==
  \A c \in Callers : RefreshWasDue(c) => h[c].msent > 0

\* Caller c's resolver call has ended; it was the first move after a
\* bootstrap wrote the record from a response that declared expires_in > 300.
FirstCallAfterBootstrap(c) ==
  /\ th[c].pc = "done"
  /\ th[c].entry \notin {"none", "force"}
  /\ ~UsesOverride(provider, th[c].ov)
  /\ boots = 1 /\ calls = 1 /\ ticks = 0
  /\ h[c].rec0.present
  /\ h[c].rec0.expires_in > RefreshBuffer

\* C25: the record a successful bootstrap writes round-trips through the
\* resolver: a call made right after it returns the access_token of the
\* exchange response and sends no refresh request; a failed bootstrap writes
\* no record.
C25_BootstrapRoundTrips ==
  /\ \A c \in Callers :
       FirstCallAfterBootstrap(c) =>
         /\ th[c].result = h[c].rec0.access_token
         /\ h[c].sent = 0
  /\ (boots > 0 /\ issued = 0) => ~store.present

\* C26: a refresh that fails (the client raises, or the answer carries no
\* access_token) writes nothing: the token file stays as it was.
C26_FailedRefreshLeavesRecord ==
  \A c \in Callers :
    h[c].got.kind \in {"perm", "transient", "errbody"} => h[c].wrote = NoRec

\* C27: one call of _ensure_valid_oauth_token without override sends at most
\* one refresh request.
C27_OneRefreshPerCall ==
  \A c \in Callers :
    (th[c].pc = "done" /\ th[c].entry = "ensure"
       /\ ~UsesOverride(provider, th[c].ov))
    => h[c].sent <= 1

\* Every refresh the callers made was answered with a token response that
\* carried a new refresh_token.
Rotating ==
  \A c \in Callers :
    h[c].sent > 0 => h[c].got.kind = "ok" /\ HasKey(h[c].got.refresh_token)

\* C28: with a provider that rotates refresh tokens, once the concurrent
\* refreshes have completed the token file holds the access_token and the
\* refresh_token the provider issued last.
C28_LatestTokensStored ==
  ((\A c \in Callers : ~Active(c)) /\ Rotating /\ store.present /\ issued > 0)
    => /\ store.access_token = AccessTok(issued)
       /\ \A c \in Callers :
            (h[c].got.access_token = AccessTok(issued)
               /\ HasKey(h[c].got.refresh_token))
            => store.refresh_token = h[c].got.refresh_token

\* RedditTokenManager.get_token_status: "status"
RedditStatus(tokens, t) ==
  LET expires_at == GetInt(tokens.expires_at)
  IN  IF t >= expires_at THEN "expired"
      ELSE IF t >= expires_at - RefreshBuffer THEN "expiring_soon"
      ELSE "valid"

\* get_token_status reports the record as needing a refresh / not valid:
\* needs_refresh (YouTube), is_expired (Spotify), status other than "valid"
\* (Reddit).
StatusReportsStale(p, tokens, t) ==
  CASE p = "youtube" -> StatusNeedsRefresh(tokens, t)
    [] p = "spotify" -> IsTokenExpired(tokens, t)
    [] p = "reddit" -> RedditStatus(tokens, t) # "valid"

\* C29: on the record in the token file, at any instant, get_token_status
\* reports the token as needing a refresh exactly when
\* get_valid_access_token would go to the refresh routine.
C29_StatusAgreesWithResolver ==
  (store.present /\ HasKey(store.access_token)) =>
    (StatusReportsStale(provider, store, now)
       <=> GetValidDecision(provider, store, now) = "refresh")

\* A step in which get_valid_access_token or force_refresh of caller c
\* returns.
ManagerReturns(c) ==
  /\ th[c].pc \in {"get", "refresh", "wait"}
  /\ th'[c].pc \in {"status", "done"}

LoadsRecord(c) ==
  th[c].pc = "get" /\ h'[c].reads = h[c].reads + 1 /\ io'.faults = io.faults

\* C21: a load that runs while a save is under way observes the complete
\* record that was in the file before the save (or, once the save is done,
\* the complete new one): it never finds the file empty or half written,
\* and never takes a present record for absent.
C21_SaveIsAtomic ==
  [][\A c \in Callers : LoadsRecord(c) => h'[c].rec0 = store]_vars

\* C22: no resolver call ends by raising: when reading or writing the record
\* fails, the call ends with a token or with the auth-required error.
C22_StorageFailureNotFatal ==
  \A c \in Callers :
    (th[c].pc = "done" /\ th[c].entry \in {"ensure", "get", "api"})
    => th[c].result \notin {Raised, PyNone}

\* C24: the record leaves the token file only by clear_tokens: no resolve or
\* refresh step, successful or failed, removes it; after clear_tokens the
\* file holds no record, and a resolver call that finds none ends as
\* unauthenticated (the static token of the environment, or auth-required).
C24_RemovedOnlyByClear ==
  /\ [][(store.present /\ ~store'.present) => io'.clears = io.clears + 1]_vars
  /\ [][io'.clears # io.clears => (~store'.present /\ ~LoadTokens'.present)]_vars
  /\ [](\A c \in Callers :
         (Resolved(c) /\ h[c].reads > 0 /\ ~h[c].rec0.present)
         => th[c].result =
              IF StaticToken(provider, h[c].env0) THEN h[c].env0 ELSE AuthError)

\* C24 witness: a record was written and cleared, and the resolver call after
\* it found no record and returned the auth-required error.
C24_Witness ==
  \E c \in Callers :
    /\ io.clears > 0 /\ issued > 0
    /\ ~store.present
    /\ Resolved(c) /\ h[c].reads > 0 /\ ~h[c].rec0.present
    /\ th[c].result = AuthError

====
